---- MODULE Spec2Model ----
(***************************************************************************)
(* RBAC middleware for Home Assistant (custom_components/rbac).            *)
(*                                                                         *)
(* The module models                                                       *)
(*   - the access decision _check_service_access_with_reason as an         *)
(*     operator over a policy document (access_config), a request and the  *)
(*     outcome of rendering the role template;                             *)
(*   - the interceptor RestrictedServiceRegistry.async_call as a set of    *)
(*     concurrent calls that suspend at every await, sharing the           *)
(*     allowed_contexts set and the access_config reference.               *)
(*                                                                         *)
(* Python values are encoded as follows.                                   *)
(*   dict with optional keys   function whose DOMAIN is the keys present   *)
(*   list of services          set (the code tests emptiness, membership)  *)
(*   service_data["entity_id"] record [kind, ids]: kind "absent" (no       *)
(*                             entity_id key or no service_data), "str"    *)
(*                             (one id, ids = <<id>>) or "list"            *)
(*   user_id None / ""         ""                                          *)
(***************************************************************************)
EXTENDS Integers, Sequences, FiniteSets, TLC

VARIABLES
    access_config,      \* hass.data[DOMAIN]["access_config"]
    allowed_contexts,   \* hass.data[DOMAIN]["allowed_contexts"]
    calls,              \* the intercepted calls: arguments, locals and position
    dispatched,         \* downstream invocations so far, per call
    request,            \* arguments of the last direct evaluation
    result,             \* what that evaluation returned
    again,              \* what a second evaluation of the same arguments returned
    caller_service_data, \* the caller's service_data object as it is now
    config_ref,         \* which object access_config refers to: the document it
                        \* was created with and a tag
    config_file,        \* the document stored in access_control.yaml
    saving              \* the administrative operation in progress, or the last one

vars == <<access_config, allowed_contexts, calls, dispatched, request, result,
          again, caller_service_data, config_ref, config_file, saving>>

\* the stored document and the administrative operation
storage == <<config_file, saving>>

\* the variables of a direct evaluation
evaluation == <<request, result, again, caller_service_data>>

-----------------------------------------------------------------------------
(* Bounds *)

MaxRules == 3       \* rules and role flags present in a drawn policy
MaxTargets == 2     \* entity ids in one request
MaxCalls == 3       \* intercepted calls in one behaviour

-----------------------------------------------------------------------------
(* Names *)

Kitchen == "light.kitchen"
Bedroom == "light.bedroom"

Services == {"turn_on", "turn_off"}

\* A rule as the decision reads it: .get("allow", False), .get("services", [])
Rule(a, s) == [allow |-> a, services |-> s]

Rules ==
    { Rule(TRUE, {}), Rule(TRUE, {"turn_on"}),
      Rule(FALSE, {}), Rule(FALSE, {"turn_on"}), Rule(FALSE, {"turn_off"}) }

EmptyMap == [k \in {} |-> Rule(FALSE, {})]

NoRules == [domains |-> EmptyMap, entities |-> EmptyMap]

-----------------------------------------------------------------------------
(* Return values of the decision *)

Ret(a, r) == [decided |-> TRUE, allowed |-> a, reason |-> r]

\* control reaches the end of a block without a return
Undecided == [decided |-> FALSE, allowed |-> FALSE, reason |-> ""]

Absent == [kind |-> "absent", ids |-> <<>>]
Single(e) == [kind |-> "str", ids |-> <<e>>]
Listed(s) == [kind |-> "list", ids |-> s]

-----------------------------------------------------------------------------
(* _check_service_access_with_reason, configured subject, entity scope *)

\* one iteration of "for eid in entity_id" (entity_id is a list)
ListEntityCheck(eid, service, default_restrictions, permissions, user_role) ==
    LET default_entities == default_restrictions.entities
        role_entities == permissions.entities
        \* "Check role-specific entity restrictions (always check ...)"
        RoleSpecific ==
            IF eid \in DOMAIN role_entities
            THEN LET role_entity_services == role_entities[eid].services
                     role_entity_allow == role_entities[eid].allow
                 IN  IF role_entity_allow
                     THEN IF role_entity_services = {} \/ service \in role_entity_services
                          THEN Ret(TRUE, "entity " \o eid \o " service " \o service \o " allowed by role " \o user_role)
                          ELSE Ret(FALSE, "entity " \o eid \o " service " \o service \o " not in role allow list")
                     ELSE IF role_entity_services = {}
                          THEN Ret(FALSE, "entity " \o eid \o " blocked by role " \o user_role)
                          ELSE IF service \in role_entity_services
                               THEN Ret(FALSE, "entity " \o eid \o " service " \o service \o " blocked by role " \o user_role)
                               ELSE Undecided
            ELSE Undecided
    IN  IF eid \in DOMAIN default_entities
        THEN LET default_entity_services == default_entities[eid].services
                 default_entity_allow == default_entities[eid].allow
             IN  IF default_entity_allow
                 THEN IF default_entity_services = {} \/ service \in default_entity_services
                      THEN Ret(TRUE, "entity " \o eid \o " service " \o service \o " allowed by default")
                      ELSE Ret(FALSE, "entity " \o eid \o " service " \o service \o " not in default allow list")
                 ELSE IF default_entity_services = {}
                      THEN IF eid \notin DOMAIN role_entities
                           THEN Ret(FALSE, "entity " \o eid \o " blocked by default restrictions")
                           ELSE LET role_entity_services == role_entities[eid].services
                                    role_entity_allow == role_entities[eid].allow
                                IN  IF role_entity_allow
                                    THEN IF role_entity_services = {} \/ service \in role_entity_services
                                         THEN Ret(TRUE, "entity " \o eid \o " service " \o service \o " allowed by role " \o user_role)
                                         ELSE Ret(FALSE, "entity " \o eid \o " service " \o service \o " not in role allow list")
                                    ELSE IF role_entity_services = {}
                                         THEN Ret(FALSE, "entity " \o eid \o " blocked by role " \o user_role)
                                         ELSE IF service \notin role_entity_services
                                              THEN Ret(FALSE, "entity " \o eid \o " service " \o service \o " not allowed by role " \o user_role)
                                              ELSE RoleSpecific
                      ELSE IF service \in default_entity_services
                           THEN IF eid \notin DOMAIN role_entities
                                THEN Ret(FALSE, "entity " \o eid \o " service " \o service \o " blocked by default restrictions")
                                ELSE LET role_entity_services == role_entities[eid].services
                                         role_entity_allow == role_entities[eid].allow
                                     IN  IF role_entity_allow
                                         THEN IF role_entity_services = {} \/ service \in role_entity_services
                                              THEN Ret(TRUE, "entity " \o eid \o " service " \o service \o " allowed by role " \o user_role)
                                              ELSE Ret(FALSE, "entity " \o eid \o " service " \o service \o " not in role allow list")
                                         ELSE IF service \in role_entity_services
                                              THEN Ret(FALSE, "entity " \o eid \o " service " \o service \o " blocked by role " \o user_role)
                                              ELSE RoleSpecific
                           ELSE RoleSpecific
        ELSE RoleSpecific

\* the loop "for eid in entity_id": the first iteration that returns ends it
RECURSIVE ListEntityLoop(_, _, _, _, _, _)
ListEntityLoop(ids, i, service, default_restrictions, permissions, user_role) ==
    IF i > Len(ids)
    THEN Undecided
    ELSE LET r == ListEntityCheck(ids[i], service, default_restrictions, permissions, user_role)
         IN  IF r.decided
             THEN r
             ELSE ListEntityLoop(ids, i + 1, service, default_restrictions, permissions, user_role)

\* a string entity_id that meets no entity rule
SingleEntityCheckSkipped(entity_id, service, default_restrictions, permissions, user_role) ==
    Undecided

\* "Same logic for single entity" (entity_id is not a list)
SingleEntityCheck(entity_id, service, default_restrictions, permissions, user_role) ==
    LET default_entities == default_restrictions.entities
        role_entities == permissions.entities
        RoleSpecific ==
            IF entity_id \in DOMAIN role_entities
            THEN LET role_entity_services == role_entities[entity_id].services
                     role_entity_allow == role_entities[entity_id].allow
                 IN  IF role_entity_allow
                     THEN IF role_entity_services = {} \/ service \in role_entity_services
                          THEN Ret(TRUE, "entity " \o entity_id \o " service " \o service \o " allowed by role " \o user_role)
                          ELSE Ret(FALSE, "entity " \o entity_id \o " service " \o service \o " not in role allow list")
                     ELSE IF role_entity_services = {}
                          THEN Ret(FALSE, "entity " \o entity_id \o " blocked by role " \o user_role)
                          ELSE IF service \in role_entity_services
                               THEN Ret(FALSE, "entity " \o entity_id \o " service " \o service \o " blocked by role " \o user_role)
                               ELSE Undecided
            ELSE Undecided
    IN  IF entity_id \in DOMAIN default_entities
        THEN LET default_entity_services == default_entities[entity_id].services
                 default_entity_allow == default_entities[entity_id].allow
             IN  IF default_entity_allow
                 THEN IF default_entity_services = {} \/ service \in default_entity_services
                      THEN Ret(TRUE, "entity " \o entity_id \o " service " \o service \o " allowed by default")
                      ELSE Ret(FALSE, "entity " \o entity_id \o " service " \o service \o " not in default allow list")
                 ELSE IF default_entity_services = {}
                      THEN IF entity_id \notin DOMAIN role_entities
                           THEN Ret(FALSE, "entity " \o entity_id \o " blocked by default restrictions")
                           ELSE LET role_entity_services == role_entities[entity_id].services
                                    role_entity_allow == role_entities[entity_id].allow
                                IN  IF role_entity_allow
                                    THEN IF role_entity_services = {} \/ service \in role_entity_services
                                         THEN Ret(TRUE, "entity " \o entity_id \o " service " \o service \o " allowed by role " \o user_role)
                                         ELSE Ret(FALSE, "entity " \o entity_id \o " service " \o service \o " not in role allow list")
                                    ELSE IF role_entity_services = {}
                                         THEN Ret(FALSE, "entity " \o entity_id \o " blocked by role " \o user_role)
                                         ELSE IF service \notin role_entity_services
                                              THEN Ret(FALSE, "entity " \o entity_id \o " service " \o service \o " not allowed by role " \o user_role)
                                              ELSE RoleSpecific
                      ELSE IF service \in default_entity_services
                           THEN IF entity_id \notin DOMAIN role_entities
                                THEN Ret(FALSE, "entity " \o entity_id \o " service " \o service \o " blocked by default restrictions")
                                ELSE LET role_entity_services == role_entities[entity_id].services
                                         role_entity_allow == role_entities[entity_id].allow
                                     IN  IF role_entity_allow
                                         THEN IF role_entity_services = {} \/ service \in role_entity_services
                                              THEN Ret(TRUE, "entity " \o entity_id \o " service " \o service \o " allowed by role " \o user_role)
                                              ELSE Ret(FALSE, "entity " \o entity_id \o " service " \o service \o " not in role allow list")
                                         ELSE IF service \in role_entity_services
                                              THEN Ret(FALSE, "entity " \o entity_id \o " service " \o service \o " blocked by role " \o user_role)
                                              ELSE RoleSpecific
                           ELSE RoleSpecific
        ELSE RoleSpecific

\* "Check entity-level restrictions FIRST (highest priority)"
EntityScope(service, service_data, default_restrictions, permissions, user_role) ==
    IF service_data.kind = "absent"
    THEN Undecided
    ELSE IF service_data.kind = "list"
         THEN ListEntityLoop(service_data.ids, 1, service, default_restrictions, permissions, user_role)
         ELSE SingleEntityCheck(service_data.ids[1], service, default_restrictions, permissions, user_role)

-----------------------------------------------------------------------------
(* _check_service_access_with_reason, configured subject, domain scope *)

\* "Check domain-level restrictions (lower priority - only if no entity
\* rules matched)"
DomainScope(domain, service, default_restrictions, permissions, user_role) ==
    LET default_domains == default_restrictions.domains
        role_domains == permissions.domains
        \* "Check role-specific domain restrictions"
        RoleSpecific ==
            IF domain \in DOMAIN role_domains
            THEN LET role_services == role_domains[domain].services
                     role_allow == role_domains[domain].allow
                 IN  IF role_allow
                     THEN IF role_services = {} \/ service \in role_services
                          THEN Ret(TRUE, "domain " \o domain \o " service " \o service \o " allowed by role " \o user_role)
                          ELSE Ret(FALSE, "domain " \o domain \o " service " \o service \o " not in role allow list")
                     ELSE IF role_services = {}
                          THEN Ret(FALSE, "domain " \o domain \o " blocked by role " \o user_role)
                          ELSE IF service \in role_services
                               THEN Ret(FALSE, "service " \o domain \o "." \o service \o " blocked by role " \o user_role)
                               ELSE Undecided
            ELSE Undecided
    IN  IF domain \in DOMAIN default_domains
        THEN LET default_services == default_domains[domain].services
                 default_allow == default_domains[domain].allow
             IN  IF default_allow
                 THEN IF default_services = {} \/ service \in default_services
                      THEN Ret(TRUE, "domain " \o domain \o " service " \o service \o " allowed by default")
                      ELSE Ret(FALSE, "domain " \o domain \o " service " \o service \o " not in default allow list")
                 ELSE IF default_services = {}
                      THEN IF domain \notin DOMAIN role_domains
                           THEN Ret(FALSE, "domain " \o domain \o " blocked by default restrictions")
                           ELSE LET role_services == role_domains[domain].services
                                    role_allow == role_domains[domain].allow
                                IN  IF role_allow
                                    THEN IF role_services = {} \/ service \in role_services
                                         THEN Ret(TRUE, "domain " \o domain \o " service " \o service \o " allowed by role " \o user_role)
                                         ELSE Ret(FALSE, "domain " \o domain \o " service " \o service \o " not in role allow list")
                                    ELSE IF role_services = {}
                                         THEN Ret(FALSE, "domain " \o domain \o " blocked by role " \o user_role)
                                         ELSE IF service \notin role_services
                                              THEN Ret(FALSE, "service " \o domain \o "." \o service \o " not allowed by role " \o user_role)
                                              ELSE RoleSpecific
                      ELSE IF service \in default_services
                           THEN IF domain \notin DOMAIN role_domains
                                THEN Ret(FALSE, "service " \o domain \o "." \o service \o " blocked by default restrictions")
                                ELSE LET role_services == role_domains[domain].services
                                         role_allow == role_domains[domain].allow
                                     IN  IF role_allow
                                         THEN IF role_services = {} \/ service \in role_services
                                              THEN Ret(TRUE, "domain " \o domain \o " service " \o service \o " allowed by role " \o user_role)
                                              ELSE Ret(FALSE, "domain " \o domain \o " service " \o service \o " not in role allow list")
                                         ELSE IF service \in role_services
                                              THEN Ret(FALSE, "service " \o domain \o "." \o service \o " blocked by role " \o user_role)
                                              ELSE RoleSpecific
                           ELSE RoleSpecific
        ELSE RoleSpecific

-----------------------------------------------------------------------------
(* _check_service_access_with_reason, deny_all and the final default *)

\* mutant: the targets alone
DenyAllEntityIdsTargetsOnly(domain, service, service_data) ==
    IF service_data.kind = "absent" THEN <<>> ELSE service_data.ids

\* entity_ids collected for the deny_all override
DenyAllEntityIds(domain, service, service_data) ==
    (IF service_data.kind = "absent" THEN <<>> ELSE service_data.ids)
        \o (IF domain \in {"script", "automation"}
            THEN <<domain \o "." \o service>>
            ELSE <<>>)

\* "for eid in entity_ids": the first entity allow rule that covers the
\* service returns True
RECURSIVE DenyAllLoop(_, _, _, _, _)
DenyAllLoop(entity_ids, i, service, role_entities, user_role) ==
    IF i > Len(entity_ids)
    THEN Ret(FALSE, "access denied by deny_all setting for role " \o user_role)
    ELSE LET eid == entity_ids[i]
         IN  IF /\ eid \in DOMAIN role_entities
                /\ role_entities[eid].allow
                /\ \/ role_entities[eid].services = {}
                   \/ service \in role_entities[eid].services
             THEN Ret(TRUE, "entity " \o eid \o " service " \o service
                            \o " allowed by role entity permissions (overrides deny_all)")
             ELSE DenyAllLoop(entity_ids, i + 1, service, role_entities, user_role)

\* mutant: the deny_all test without the browser_mod exception
DenyAllExceptionNoBrowserMod(domain, service) ==
    domain = "system_log" /\ service = "write"

\* the pairs the deny_all test lets through
DenyAllException(domain, service) ==
    \/ domain = "system_log" /\ service = "write"
    \/ domain = "browser_mod" /\ service = "notification"

\* mutant: the deny_all block entered whatever the role's deny_all says
DenyAllAlways(domain, service, service_data, deny_all, permissions, user_role) ==
    DenyAllLoop(DenyAllEntityIds(domain, service, service_data), 1,
                service, permissions.entities, user_role)

\* "If deny_all is enabled and no allow rules matched, deny access", then
\* the closing "return True"
DenyAllOrGrant(domain, service, service_data, deny_all, permissions, user_role) ==
    IF deny_all /\ ~DenyAllException(domain, service)
    THEN DenyAllLoop(DenyAllEntityIds(domain, service, service_data), 1,
                     service, permissions.entities, user_role)
    ELSE Ret(TRUE, "access granted")

\* everything after the admin test, for the role the resolution settled on
RoleDecision(domain, service, service_data, access_config_, role_config, user_role) ==
    LET deny_all == role_config.deny_all
        default_restrictions == access_config_.default_restrictions
        permissions == role_config.permissions
        e == EntityScope(service, service_data, default_restrictions, permissions, user_role)
        d == DomainScope(domain, service, default_restrictions, permissions, user_role)
    IN  IF e.decided
        THEN e
        ELSE IF d.decided
             THEN d
             ELSE DenyAllOrGrant(domain, service, service_data, deny_all, permissions, user_role)

-----------------------------------------------------------------------------
(* _check_service_access_with_reason, subject without a record *)

\* "for eid in entity_id" of the default-only path
RECURSIVE DefaultListLoop(_, _, _, _)
DefaultListLoop(ids, i, service, default_entities) ==
    IF i > Len(ids)
    THEN Undecided
    ELSE LET eid == ids[i]
         IN  IF eid \in DOMAIN default_entities /\ default_entities[eid].services = {}
             THEN Ret(FALSE, "entity " \o eid \o " blocked by default")
             ELSE IF eid \in DOMAIN default_entities /\ service \in default_entities[eid].services
                  THEN Ret(FALSE, "entity " \o eid \o " service " \o service \o " blocked by default")
                  ELSE DefaultListLoop(ids, i + 1, service, default_entities)

\* "If user not in config, apply default restrictions"
DefaultOnlyDecision(domain, service, service_data, default_restrictions) ==
    LET default_domains == default_restrictions.domains
        default_entities == default_restrictions.entities
        entity_part ==
            IF service_data.kind = "absent"
            THEN Undecided
            ELSE IF service_data.kind = "list"
                 THEN DefaultListLoop(service_data.ids, 1, service, default_entities)
                 ELSE LET entity_id == service_data.ids[1]
                      IN  IF entity_id \in DOMAIN default_entities
                          THEN IF default_entities[entity_id].services = {}
                               THEN Ret(FALSE, "entity " \o entity_id \o " blocked by default")
                               ELSE IF service \in default_entities[entity_id].services
                                    THEN Ret(FALSE, "entity " \o entity_id \o " service " \o service \o " blocked by default")
                                    ELSE Undecided
                          ELSE Undecided
    IN  IF domain \in DOMAIN default_domains /\ default_domains[domain].services = {}
        THEN Ret(FALSE, "domain " \o domain \o " blocked by default")
        ELSE IF domain \in DOMAIN default_domains /\ service \in default_domains[domain].services
             THEN Ret(FALSE, "service " \o domain \o "." \o service \o " blocked by default")
             ELSE IF entity_part.decided
                  THEN entity_part
                  ELSE Ret(TRUE, "no default restrictions")

-----------------------------------------------------------------------------
(* _check_service_access_with_reason, role resolution *)

\* What template.async_render(..., parse_result=False) can hand back: a
\* value, or an exception ("<raise>").  "<None>" is Python's None.
RenderOutcomes == {"<None>", "", "False", "false", "0", "True", "home", "<raise>"}

\* mutant: the falsy list without "0"
TemplateResultZeroTrue(rendered) ==
    IF rendered \in {"<None>", "", "False", "false"}
    THEN FALSE
    ELSE rendered \notin {"<None>", ""}

\* bool(result) of a rendered value
PyBool(rendered) == rendered \notin {"<None>", ""}

\* "template_result = bool(result) if result not in [None, "", "False",
\* "false", "0"] else False"
TemplateResult(rendered) ==
    IF rendered \in {"<None>", "", "False", "false", "0"}
    THEN FALSE
    ELSE PyBool(rendered)

\* The role name the decision goes on with: the configured role, or its
\* fallbackRole when the role has template and fallbackRole and the template
\* renders false or raises.  roles.get(user_role, {}) is falsy for a name
\* that roles does not hold.
EffectiveRole(user_role, roles, rendered) ==
    IF /\ user_role \in DOMAIN roles
       /\ roles[user_role].template # ""
       /\ roles[user_role].fallbackRole # ""
       /\ (rendered = "<raise>" \/ ~TemplateResult(rendered))
    THEN roles[user_role].fallbackRole
    ELSE user_role

\* mutant: the admin flag read under a key no role holds
IsAdminRoleWrongKey(role_config) == FALSE

\* "is_admin_role = role_config.get("admin", False)"
IsAdminRole(role_config) == role_config.admin

\* mutant: the string "null" taken for a user id
NoUserButNull(user_id) == user_id = ""

\* "if not user_id or user_id == "null" or user_id is None" ("" stands for
\* None and for the empty string)
NoUser(user_id) == user_id = "" \/ user_id = "null"

\* _check_service_access_with_reason(domain, service, service_data, user_id,
\* access_config, hass); rendered stands for what hass renders the template to
CheckServiceAccessWithReason(domain, service, service_data, user_id, access_config_, rendered) ==
    IF NoUser(user_id)
    THEN Ret(TRUE, "system call (no user_id)")
    ELSE IF user_id \notin DOMAIN access_config_.users
         THEN DefaultOnlyDecision(domain, service, service_data, access_config_.default_restrictions)
         ELSE LET configured == access_config_.users[user_id].role
                  roles == access_config_.roles
                  user_role == EffectiveRole(configured, roles, rendered)
              IN  IF user_role \notin DOMAIN roles
                  THEN IF user_role # configured
                       THEN Ret(TRUE, "fallback role " \o user_role \o " not found")
                       ELSE Ret(TRUE, "no role configuration for " \o user_role)
                  ELSE IF IsAdminRole(roles[user_role])
                       THEN Ret(TRUE, "admin role " \o user_role \o " has full access")
                       ELSE RoleDecision(domain, service, service_data, access_config_,
                                         roles[user_role], user_role)

\* The evaluation reaches the deny_all block ("if deny_all and not ...") and
\* enters it.
EntersDenyAll(domain, service, service_data, user_id, access_config_, rendered) ==
    /\ ~NoUser(user_id)
    /\ user_id \in DOMAIN access_config_.users
    /\ LET roles == access_config_.roles
           user_role == EffectiveRole(access_config_.users[user_id].role, roles, rendered)
       IN  /\ user_role \in DOMAIN roles
           /\ ~IsAdminRole(roles[user_role])
           /\ ~EntityScope(service, service_data, access_config_.default_restrictions,
                           roles[user_role].permissions, user_role).decided
           /\ ~DomainScope(domain, service, access_config_.default_restrictions,
                           roles[user_role].permissions, user_role).decided
           /\ roles[user_role].deny_all
           /\ ~DenyAllException(domain, service)

\* The caller's service_data after the evaluation.  In the deny_all block
\* "entity_ids = entity_id if isinstance(entity_id, list)" is the caller's
\* own list, and "entity_ids.append(entity_name)" appends to it.
ServiceDataAfter(domain, service, service_data, user_id, access_config_, rendered) ==
    IF /\ service_data.kind = "list"
       /\ domain \in {"script", "automation"}
       /\ EntersDenyAll(domain, service, service_data, user_id, access_config_, rendered)
    THEN Listed(Append(service_data.ids, domain \o "." \o service))
    ELSE service_data

-----------------------------------------------------------------------------
(* Policy documents *)

Role(admin, deny_all, permissions, template, fallbackRole) ==
    [admin |-> admin, deny_all |-> deny_all, permissions |-> permissions,
     template |-> template, fallbackRole |-> fallbackRole]

User(role, restrictions) == [role |-> role, restrictions |-> restrictions]

\* the rules an assignment f of rules to slots <<level, scope, key>> puts
\* into the table scope of level
MapOf(f, level, scope) ==
    LET keys == {s[3] : s \in {t \in DOMAIN f : t[1] = level /\ t[2] = scope}}
    IN  [k \in keys |-> f[<<level, scope, k>>]]

RuleSet(f, level) ==
    [domains |-> MapOf(f, level, "domains"), entities |-> MapOf(f, level, "entities")]

NoRequest == [domain |-> "", service |-> "", service_data |-> Absent,
              user_id |-> "", rendered |-> ""]

NoResult == Undecided

-----------------------------------------------------------------------------
(* Rule evaluation: user alice holds role family, which has no template.   *)
(* A policy is drawn with at most MaxRules rules and role flags, then one  *)
(* request by alice is evaluated.                                          *)

RuleSlots ==
    { <<"default", "entities", Kitchen>>, <<"default", "entities", Bedroom>>,
      <<"default", "domains", "light">>,
      <<"family", "entities", Kitchen>>, <<"family", "entities", Bedroom>>,
      <<"family", "entities", "script.turn_on">>,
      <<"family", "domains", "light">>,
      <<"alice", "entities", Kitchen>> }

RoleFlags == {"admin", "deny_all"}

RulePolicy(f, flags) ==
    [enabled |-> TRUE,
     allow_chained_actions |-> FALSE,
     default_restrictions |-> RuleSet(f, "default"),
     roles |-> [r \in {"family"} |->
                  Role("admin" \in flags, "deny_all" \in flags, RuleSet(f, "family"), "", "")],
     users |-> [u \in {"alice"} |-> User("family", RuleSet(f, "alice"))]]

\* sequences over S of length at most n
SeqUpTo(S, n) == UNION {[1..k -> S] : k \in 0..n}

Targets ==
    {Absent} \cup {Single(e) : e \in {Kitchen, Bedroom}}
             \cup {Listed(s) : s \in SeqUpTo({Kitchen, Bedroom}, MaxTargets)}

RuleRequests ==
    [domain : {"light"}, service : Services, service_data : Targets,
     user_id : {"alice"}, rendered : {"True"}]
    \cup [domain : {"script"}, service : {"turn_on"},
          service_data : {Absent, Single(Kitchen), Listed(<<Kitchen>>)},
          user_id : {"alice"}, rendered : {"True"}]
    \cup [domain : {"light"}, service : Services,
          service_data : {Absent, Single(Kitchen), Listed(<<Kitchen, Bedroom>>)},
          user_id : {"bob"}, rendered : {"True"}]
    \cup [domain : {"browser_mod"}, service : {"notification"}, service_data : {Absent},
          user_id : {"alice"}, rendered : {"True"}]
    \cup [domain : {"system_log"}, service : {"write"}, service_data : {Absent},
          user_id : {"alice"}, rendered : {"True"}]

\* the object the document is loaded into at start-up
FirstObject(loaded) == <<loaded, FALSE>>

\* an object created for the document loaded: it is not the object
\* access_config refers to
NewObject(loaded) ==
    IF config_ref = <<loaded, FALSE>> THEN <<loaded, TRUE>> ELSE <<loaded, FALSE>>

\* no administrative operation has run
NoAdmin ==
    [pc |-> "idle", op |-> "", arg |-> "", before |-> EmptyMap, config |-> EmptyMap,
     live |-> FALSE, result |-> FALSE]

Idle ==
    /\ config_ref = FirstObject(access_config)
    /\ config_file = access_config
    /\ saving = NoAdmin
    /\ allowed_contexts = {}
    /\ calls = <<>>
    /\ dispatched = <<>>

RuleInit ==
    /\ \E S \in SUBSET RuleSlots, flags \in SUBSET RoleFlags :
          /\ Cardinality(S) + Cardinality(flags) <= MaxRules
          /\ \E f \in [S -> Rules] : access_config = RulePolicy(f, flags)
    /\ Idle
    /\ request = NoRequest
    /\ result = NoResult
    /\ again = NoResult
    /\ caller_service_data = Absent

\* one direct call of _check_service_access_with_reason
Evaluate(req) ==
    /\ result = NoResult
    /\ request' = req
    /\ result' = CheckServiceAccessWithReason(req.domain, req.service, req.service_data,
                                              req.user_id, access_config, req.rendered)
    /\ caller_service_data' = ServiceDataAfter(req.domain, req.service, req.service_data,
                                               req.user_id, access_config, req.rendered)
    /\ UNCHANGED <<access_config, config_ref, allowed_contexts, calls, dispatched, again, storage>>

\* the caller evaluates its request a second time, with the service_data
\* object it holds
Reevaluate ==
    /\ result # NoResult
    /\ again = NoResult
    /\ again' = CheckServiceAccessWithReason(request.domain, request.service, caller_service_data,
                                             request.user_id, access_config, request.rendered)
    /\ caller_service_data' = ServiceDataAfter(request.domain, request.service, caller_service_data,
                                               request.user_id, access_config, request.rendered)
    /\ UNCHANGED <<access_config, config_ref, allowed_contexts, calls, dispatched, request, result, storage>>

RuleNext ==
    \/ \E req \in RuleRequests : Evaluate(req)
    \/ Reevaluate

SpecRules == RuleInit /\ [][RuleNext]_vars

-----------------------------------------------------------------------------
(* Role resolution: user alice holds role family, which may carry a        *)
(* template and a fallbackRole (guest, or visitor, a name roles does not   *)
(* hold); user carol holds role ghost, which roles does not hold; bob has  *)
(* no record.  A policy is drawn with at most MaxRules rules and role      *)
(* flags, then one request is evaluated against one rendering outcome.     *)

RoleSlots ==
    { <<"default", "domains", "light">>,
      <<"family", "entities", Kitchen>>, <<"family", "domains", "light">>,
      <<"guest", "entities", Kitchen>>, <<"guest", "domains", "light">> }

TwoRoleFlags == {"family"} \X RoleFlags \cup {"guest"} \X RoleFlags

Templates == {"", "{{ is_state('person.alice', 'home') }}"}

Fallbacks == {"", "guest", "visitor"}

RolePolicy(f, flags, template, fallbackRole) ==
    [enabled |-> TRUE,
     allow_chained_actions |-> FALSE,
     default_restrictions |-> RuleSet(f, "default"),
     roles |-> [r \in {"family", "guest"} |->
                  Role(<<r, "admin">> \in flags, <<r, "deny_all">> \in flags, RuleSet(f, r),
                       IF r = "family" THEN template ELSE "",
                       IF r = "family" THEN fallbackRole ELSE "")],
     users |-> [u \in {"alice", "carol"} |->
                  User(IF u = "alice" THEN "family" ELSE "ghost", NoRules)]]

RoleRequests ==
    [domain : {"light"}, service : Services, service_data : {Absent, Single(Kitchen)},
     user_id : {"alice"}, rendered : RenderOutcomes]
    \cup [domain : {"light"}, service : Services, service_data : {Absent, Single(Kitchen)},
          user_id : {"carol", "bob"}, rendered : {"True"}]

RoleInit ==
    /\ \E S \in SUBSET RoleSlots, flags \in SUBSET TwoRoleFlags :
          /\ Cardinality(S) + Cardinality(flags) <= MaxRules
          /\ \E f \in [S -> Rules], template \in Templates, fallbackRole \in Fallbacks :
                access_config = RolePolicy(f, flags, template, fallbackRole)
    /\ Idle
    /\ request = NoRequest
    /\ result = NoResult
    /\ again = NoResult
    /\ caller_service_data = Absent

RoleNext == \E req \in RoleRequests : Evaluate(req)

SpecRoles == RoleInit /\ [][RoleNext]_vars

-----------------------------------------------------------------------------
(* RestrictedServiceRegistry.async_call                                    *)
(*                                                                         *)
(* Each intercepted call is a coroutine.  It runs without interruption     *)
(* from one await to the next; at an await other calls and a reload may    *)
(* run.  Positions (pc):                                                   *)
(*   new       not yet issued                                              *)
(*   lookup    awaiting hass.auth.async_get_user                           *)
(*   notify    denied, awaiting persistent_notification.create             *)
(*   running   awaiting the downstream async_call of the request           *)
(*   recover   awaiting the downstream async_call of the except branch     *)
(*   returned, raised, denied   finished                                   *)

CallIds == 1..MaxCalls

\* the context argument: a Context has id, parent_id and user_id ("" for
\* None); present is FALSE for context=None
Context(id, parent_id, user_id) ==
    [present |-> TRUE, id |-> id, parent_id |-> parent_id, user_id |-> user_id]

NoContext == [present |-> FALSE, id |-> "", parent_id |-> "", user_id |-> ""]

\* the calls the runs issue: a script and the light call nested in it (same
\* context, or a child context), a script call of a built-in user, a call
\* into an excluded domain
CallArgs ==
    { [domain |-> "script", service |-> "turn_on", service_data |-> Absent,
       context |-> Context("c1", "", "alice")],
      [domain |-> "light", service |-> "turn_on", service_data |-> Single(Kitchen),
       context |-> Context("c1", "", "alice")],
      [domain |-> "light", service |-> "turn_on", service_data |-> Single(Kitchen),
       context |-> Context("c2", "c1", "alice")],
      [domain |-> "script", service |-> "turn_on", service_data |-> Absent,
       context |-> Context("c2", "", "supervisor")],
      [domain |-> "system_log", service |-> "write", service_data |-> Absent,
       context |-> Context("c1", "", "alice")] }

\* users that have a person.* state whose user_id attribute names them
PersonUsers == {"alice", "bob"}

\* the fallback of _is_builtin_ha_user when hass is not given
IsBuiltinHaUserNoHass(user_id) == FALSE

\* _is_builtin_ha_user(user_id, hass)
IsBuiltinHaUser(user_id) == user_id \notin PersonUsers

\* "excluded_domains = [...]"
ExcludedDomains == {"http", "auth", "system_log", "persistent_notification"}

NewCall ==
    [pc |-> "new", domain |-> "", service |-> "", service_data |-> Absent,
     context |-> NoContext, allow_chained_actions |-> FALSE, path |-> "",
     context_id_added |-> "", reason |-> "", after_release |-> FALSE]

\* a lookup that always takes the default
SettingDefault(access_config_, key, default) == default

\* access_config.get(key, default) for the settings
Setting(access_config_, key, default) ==
    IF key \in DOMAIN access_config_ THEN access_config_[key] ELSE default

\* the policy of the interceptor runs: role family blocks domain light and
\* leaves scripts alone; alice holds it
CallPolicy(enabled, allow_chained_actions) ==
    [enabled |-> enabled,
     allow_chained_actions |-> allow_chained_actions,
     show_notifications |-> TRUE,
     default_restrictions |-> NoRules,
     roles |-> [r \in {"family"} |->
                  Role(FALSE, FALSE,
                       [domains |-> [d \in {"light"} |-> Rule(FALSE, {})],
                        entities |-> EmptyMap], "", "")],
     users |-> [u \in {"alice"} |-> User("family", NoRules)]]

CallPolicies == {CallPolicy(e, a) : e \in BOOLEAN, a \in BOOLEAN}

\* "context_chain": the ids the chain check looks up
ContextChain(context) ==
    IF context.present THEN {context.id, context.parent_id} \ {""} ELSE {}

Finished == {"returned", "raised", "denied"}

\* history: a call that registered an id of this chain had left its
\* downstream execution before this call was intercepted
AfterRelease(context) ==
    \E k \in CallIds : /\ calls[k].pc \in Finished \cup {"recover"}
                       /\ calls[k].context_id_added \in ContextChain(context)

\* "return await self._original.async_call(...)" reached along path
\* (allow_chained_actions is not read after the registration: the record
\* keeps the local only up to there)
Dispatch(i, call, path) ==
    /\ calls' = [calls EXCEPT ![i] = [call EXCEPT !.pc = "running", !.path = path,
                                                  !.allow_chained_actions = FALSE]]
    /\ dispatched' = [dispatched EXCEPT ![i] = @ + 1]

\* async_call up to its first await: the chain check, the excluded domains,
\* the user of the context
Begin(i, inv) ==
    LET context == inv.context
        allow_chained_actions == Setting(access_config, "allow_chained_actions", FALSE)
        call == [NewCall EXCEPT !.domain = inv.domain, !.service = inv.service,
                                !.service_data = inv.service_data, !.context = context,
                                !.allow_chained_actions = allow_chained_actions,
                                !.after_release = AfterRelease(context)]
    IN  /\ calls[i].pc = "new"
        /\ i > 1 => calls[i - 1].pc # "new"
        /\ IF /\ allow_chained_actions
              /\ context.present
              /\ ContextChain(context) \cap allowed_contexts # {}
           THEN Dispatch(i, call, "chained")
           ELSE IF inv.domain \in ExcludedDomains
                THEN Dispatch(i, call, "excluded")
                ELSE IF context.present /\ context.user_id # ""
                     THEN /\ calls' = [calls EXCEPT ![i] = [call EXCEPT !.pc = "lookup"]]
                          /\ UNCHANGED dispatched
                     ELSE Dispatch(i, call, "no_user")
        /\ UNCHANGED <<access_config, config_ref, allowed_contexts, evaluation, storage>>

\* a users entry that is a YAML scalar ("alice: family") instead of a mapping
ScalarUser(name) == [scalar |-> name]

\* "user_role = user_config.get("role", "unknown")" raises AttributeError when
\* the entry of the user is a string
RaisesInCheck(user_id, access_config_) ==
    /\ user_id \in DOMAIN access_config_.users
    /\ "scalar" \in DOMAIN access_config_.users[user_id]

\* an except branch that hands the error to the caller
RecoverRaises(i, call) ==
    /\ calls' = [calls EXCEPT ![i] = [call EXCEPT !.pc = "raised", !.path = "error",
                                                  !.allow_chained_actions = FALSE]]
    /\ UNCHANGED dispatched

\* "except Exception": the error is logged and the call is passed downstream
Recover(i, call) ==
    /\ calls' = [calls EXCEPT ![i] = [call EXCEPT !.pc = "recover", !.path = "error",
                                                  !.allow_chained_actions = FALSE]]
    /\ dispatched' = [dispatched EXCEPT ![i] = @ + 1]

\* async_get_user raises
LookupRaises(i) ==
    /\ calls[i].pc = "lookup"
    /\ Recover(i, calls[i])
    /\ UNCHANGED <<access_config, config_ref, allowed_contexts, evaluation, storage>>

\* a registration whatever allow_chained_actions was
RegistersWithoutFlag(call) ==
    /\ call.context.present
    /\ call.domain \in {"script", "automation"}
    /\ call.context.id # ""

\* "if allow_chained_actions and context and (domain == 'script' or domain ==
\* 'automation')" and "if hasattr(context, 'id') and context.id"
Registers(call) ==
    /\ call.allow_chained_actions
    /\ call.context.present
    /\ call.domain \in {"script", "automation"}
    /\ call.context.id # ""

\* from the return of async_get_user to the next await: built-in users, the
\* enabled switch, the decision, the denial or the chain registration
AfterLookup(i) ==
    LET call == calls[i]
        user_id == call.context.user_id
        decision == CheckServiceAccessWithReason(call.domain, call.service, call.service_data,
                                                 user_id, access_config, "True")
        has_entity == call.service_data.kind # "absent"
        register == Registers(call)
    IN  /\ call.pc = "lookup"
        /\ IF IsBuiltinHaUser(user_id)
           THEN Dispatch(i, call, "builtin") /\ UNCHANGED allowed_contexts
           ELSE IF NoUser(user_id)
           THEN Dispatch(i, call, "no_user") /\ UNCHANGED allowed_contexts
           ELSE IF ~Setting(access_config, "enabled", TRUE)
                THEN Dispatch(i, call, "disabled") /\ UNCHANGED allowed_contexts
                ELSE IF RaisesInCheck(user_id, access_config)
                THEN Recover(i, call) /\ UNCHANGED allowed_contexts
                ELSE IF ~decision.allowed
                     THEN /\ calls' = [calls EXCEPT ![i] =
                                [call EXCEPT !.reason = decision.reason,
                                             !.allow_chained_actions = FALSE,
                                             !.pc = IF has_entity /\ Setting(access_config, "show_notifications", TRUE)
                                                    THEN "notify" ELSE "denied"]]
                          /\ UNCHANGED <<dispatched, allowed_contexts>>
                     ELSE /\ allowed_contexts' =
                                IF register THEN allowed_contexts \cup {call.context.id}
                                ELSE allowed_contexts
                          /\ Dispatch(i, [call EXCEPT !.reason = decision.reason,
                                                      !.context_id_added =
                                                          IF register THEN call.context.id ELSE ""],
                                      "allowed")
        /\ UNCHANGED <<access_config, config_ref, evaluation, storage>>

\* a notification error that would escape to "except Exception"
NotifyErrorEscapes(i, outcome) ==
    IF outcome = "raised"
    THEN Recover(i, calls[i])
    ELSE calls' = [calls EXCEPT ![i].pc = "denied"] /\ UNCHANGED dispatched

\* "except Exception as notify_error": whatever the notification call did,
\* the steps after it run and the access-denied HomeAssistantError is raised
NotifyOutcome(i, outcome) ==
    /\ calls' = [calls EXCEPT ![i].pc = "denied"]
    /\ UNCHANGED dispatched

\* the persistent_notification.create call comes back or raises
NotifyDone(i, outcome) ==
    /\ calls[i].pc = "notify"
    /\ NotifyOutcome(i, outcome)
    /\ UNCHANGED <<access_config, config_ref, allowed_contexts, evaluation, storage>>

FinallyKeeps(i) == allowed_contexts

\* a finally that discards the parent id of the context
FinallyDiscardsParent(i) == allowed_contexts \ {calls[i].context.parent_id}

\* "finally": the context this call added is discarded
Finally(i) ==
    IF calls[i].context_id_added # ""
    THEN allowed_contexts \ {calls[i].context_id_added}
    ELSE allowed_contexts

\* the downstream call returns
DownstreamReturns(i) ==
    /\ calls[i].pc = "running"
    /\ allowed_contexts' = Finally(i)
    /\ calls' = [calls EXCEPT ![i].pc = "returned"]
    /\ UNCHANGED <<access_config, config_ref, dispatched, evaluation, storage>>

\* the downstream call raises: a HomeAssistantError is re-raised, any other
\* exception is logged and the call is passed downstream once more
DownstreamRaises(i, error) ==
    /\ calls[i].pc = "running"
    /\ allowed_contexts' = Finally(i)
    /\ IF error = "HomeAssistantError"
       THEN /\ calls' = [calls EXCEPT ![i].pc = "raised"]
            /\ UNCHANGED dispatched
       ELSE /\ calls' = [calls EXCEPT ![i].pc = "recover"]
            /\ dispatched' = [dispatched EXCEPT ![i] = @ + 1]
    /\ UNCHANGED <<access_config, config_ref, evaluation, storage>>

\* the downstream call of the except branch returns or raises
RecoverDone(i, outcome) ==
    /\ calls[i].pc = "recover"
    /\ calls' = [calls EXCEPT ![i].pc = outcome]
    /\ UNCHANGED <<access_config, config_ref, allowed_contexts, dispatched, evaluation, storage>>

\* reload_access_config after access_control.yaml was edited to hold loaded:
\* the reference is replaced by the loaded document, a new object (config_ref
\* tells it from the object it replaces; the object an operation is saving
\* is no longer the live one)
ReloadAccessConfig(loaded) ==
    /\ loaded # access_config
    /\ config_file' = loaded
    /\ access_config' = loaded
    /\ config_ref' = NewObject(loaded)
    /\ saving' = IF saving.pc = "saving" THEN [saving EXCEPT !.live = FALSE] ELSE saving
    /\ UNCHANGED <<allowed_contexts, calls, dispatched, evaluation>>

Init ==
    /\ access_config \in {CallPolicy(TRUE, a) : a \in BOOLEAN}
    /\ allowed_contexts = {}
    /\ calls = [i \in CallIds |-> NewCall]
    /\ dispatched = [i \in CallIds |-> 0]
    /\ config_ref = FirstObject(access_config)
    /\ config_file = access_config
    /\ saving = NoAdmin
    /\ request = NoRequest
    /\ result = NoResult
    /\ again = NoResult
    /\ caller_service_data = Absent

Next ==
    \/ \E i \in CallIds, inv \in CallArgs : Begin(i, inv)
    \/ \E i \in CallIds : AfterLookup(i)
    \/ \E i \in CallIds : LookupRaises(i)
    \/ \E i \in CallIds, outcome \in {"returned", "raised"} : NotifyDone(i, outcome)
    \/ \E i \in CallIds : DownstreamReturns(i)
    \/ \E i \in CallIds, error \in {"HomeAssistantError", "Exception"} : DownstreamRaises(i, error)
    \/ \E i \in CallIds, outcome \in {"returned", "raised"} : RecoverDone(i, outcome)
    \/ \E loaded \in CallPolicies : ReloadAccessConfig(loaded)

Spec == Init /\ [][Next]_vars

-----------------------------------------------------------------------------
(* The administrative operations that touch the document and the file.     *)

\* add_user_access(hass, user_id, role) up to its await: the record is
\* written into the document access_config refers to, then the document is
\* handed to _save_access_control_config
AddUserAccess(user_id, role) ==
    LET users == access_config.users
        record == [r \in {"role"} |-> role]
    IN  /\ saving.pc # "saving"
        /\ access_config' =
              [access_config EXCEPT !.users =
                  [u \in DOMAIN users \cup {user_id} |->
                      IF u = user_id THEN record ELSE users[u]]]
        /\ access_config' # access_config
        /\ saving' = [pc |-> "saving", op |-> "add_user_access", arg |-> user_id,
                     before |-> access_config, config |-> access_config',
                     live |-> TRUE, result |-> FALSE]
        /\ UNCHANGED <<config_ref, config_file, allowed_contexts, calls, dispatched,
                       evaluation>>

\* "del access_config["roles"][role_name]" and the loop over the users
DeletedRole(config, role_name) ==
    [config EXCEPT
        !.roles = [r \in DOMAIN config.roles \ {role_name} |-> config.roles[r]],
        !.users = [u \in DOMAIN config.users |->
                      IF "role" \in DOMAIN config.users[u] /\ config.users[u].role = role_name
                      THEN [config.users[u] EXCEPT !.role = "user"]
                      ELSE config.users[u]]]

\* RBACConfigView.post, action delete_role, up to the await of the save: the
\* document is loaded from the file, the role is deleted from the loaded
\* copy and its users are moved to the role "user"
DeleteRole(role_name) ==
    /\ saving.pc # "saving"
    /\ \A u \in DOMAIN config_file.users : "scalar" \notin DOMAIN config_file.users[u]
    /\ saving' = [pc |-> "saving", op |-> "delete_role", arg |-> role_name,
                 before |-> config_file, config |-> DeletedRole(config_file, role_name),
                 live |-> FALSE, result |-> FALSE]
    /\ UNCHANGED <<access_config, config_ref, config_file, allowed_contexts, calls,
                   dispatched, evaluation>>

\* _save_access_control_config comes back: on success the file holds the
\* document that was handed over and hass.data[DOMAIN]["access_config"] is
\* assigned that object; on failure the operation reports the failure
SaveDone(success) ==
    /\ saving.pc = "saving"
    /\ saving' = [saving EXCEPT !.pc = "done", !.result = success]
    /\ IF success
       THEN /\ config_file' = saving.config
            /\ access_config' = saving.config
            /\ config_ref' = IF saving.live THEN config_ref ELSE NewObject(saving.config)
       ELSE UNCHANGED <<config_file, access_config, config_ref>>
    /\ UNCHANGED <<allowed_contexts, calls, dispatched, evaluation>>

-----------------------------------------------------------------------------
(* One intercepted call against a drawn policy: a policy is drawn with at  *)
(* most MaxRules rules and role flags, then call 1 runs through async_call *)
(* while the document is reloaded.                                         *)

\* a policy whose entry for alice is a scalar
ScalarUserPolicy ==
    [CallPolicy(TRUE, FALSE) EXCEPT !.users = [u \in {"alice"} |-> ScalarUser("family")]]

\* a policy that lists the built-in user supervisor under the role family
BuiltinUserPolicy ==
    [CallPolicy(TRUE, FALSE) EXCEPT
        !.users = [u \in {"alice", "supervisor"} |-> User("family", NoRules)]]

\* the documents a reload brings in
SubjectReloads == CallPolicies \cup {ScalarUserPolicy, BuiltinUserPolicy}

SubjectSlots ==
    { <<"default", "domains", "light">>, <<"default", "entities", Kitchen>>,
      <<"family", "domains", "light">> }

\* the calls of the run: light.turn_on on the kitchen light without context,
\* without user id, for the user id "null", for alice (role family), for bob
\* (no record) and for a built-in user; an allowed script; an excluded domain
SubjectArgs ==
    [domain : {"light"}, service : {"turn_on"}, service_data : {Single(Kitchen)},
     context : {NoContext} \cup {Context("c1", "", u) : u \in {"", "null", "alice", "bob", "supervisor"}}]
    \cup [domain : {"script", "system_log"}, service : {"turn_on"}, service_data : {Absent},
          context : {Context("c1", "", "alice")}]

SubjectInit ==
    /\ \E S \in SUBSET SubjectSlots, flags \in SUBSET RoleFlags, enabled \in BOOLEAN :
          /\ Cardinality(S) + Cardinality(flags) <= MaxRules
          /\ \E f \in [S -> Rules] :
                access_config = [RulePolicy(f, flags) EXCEPT !.enabled = enabled]
    /\ config_ref = FirstObject(access_config)
    /\ config_file = access_config
    /\ saving = NoAdmin
    /\ allowed_contexts = {}
    /\ calls = [i \in CallIds |-> NewCall]
    /\ dispatched = [i \in CallIds |-> 0]
    /\ request = NoRequest
    /\ result = NoResult
    /\ again = NoResult
    /\ caller_service_data = Absent

SubjectNext ==
    \/ \E inv \in SubjectArgs : Begin(1, inv)
    \/ AfterLookup(1)
    \/ LookupRaises(1)
    \/ \E outcome \in {"returned", "raised"} : NotifyDone(1, outcome)
    \/ DownstreamReturns(1)
    \/ \E error \in {"HomeAssistantError", "Exception"} : DownstreamRaises(1, error)
    \/ \E outcome \in {"returned", "raised"} : RecoverDone(1, outcome)
    \/ \E loaded \in SubjectReloads : ReloadAccessConfig(loaded)

SpecSubjects == SubjectInit /\ [][SubjectNext]_vars

-----------------------------------------------------------------------------
(* The administrative operations against a drawn policy: roles are drawn   *)
(* from AdminRoles and users are given roles, then users are added, roles  *)
(* are deleted, saves succeed or fail and the document is reloaded.        *)

AdminRoles == {"family", "user"}

AdminUsers == {"alice", "carol"}

\* a policy with the roles in roles (none restricts anything) and the users
\* of role_of under their roles
AdminPolicy(roles, role_of) ==
    [enabled |-> TRUE,
     allow_chained_actions |-> FALSE,
     show_notifications |-> TRUE,
     default_restrictions |-> NoRules,
     roles |-> [r \in roles |-> Role(FALSE, FALSE, NoRules, "", "")],
     users |-> [u \in DOMAIN role_of |-> User(role_of[u], NoRules)]]

\* the policies the runs start from: every user holds a role that is stored
AdminPolicies ==
    UNION { {AdminPolicy(roles, role_of) :
                role_of \in UNION {[U -> roles] : U \in SUBSET AdminUsers}} :
            roles \in SUBSET AdminRoles }

AdminInit ==
    /\ access_config \in AdminPolicies
    /\ config_ref = FirstObject(access_config)
    /\ config_file = access_config
    /\ saving = NoAdmin
    /\ allowed_contexts = {}
    /\ calls = [i \in CallIds |-> NewCall]
    /\ dispatched = [i \in CallIds |-> 0]
    /\ request = NoRequest
    /\ result = NoResult
    /\ again = NoResult
    /\ caller_service_data = Absent

AdminNext ==
    \/ \E user_id \in {"bob"}, role \in AdminRoles : AddUserAccess(user_id, role)
    \/ \E role_name \in AdminRoles : DeleteRole(role_name)
    \/ \E success \in BOOLEAN : SaveDone(success)
    \/ \E loaded \in {AdminPolicy(AdminRoles, [u \in {"alice"} |-> "family"])} :
          ReloadAccessConfig(loaded)

SpecAdmin == AdminInit /\ [][AdminNext]_vars

-----------------------------------------------------------------------------
(* Vocabulary of the claims *)

\* The rule matcher of the specification: what the rule stored under key
\* says about service.
Match(rules, key, service) ==
    IF key \notin DOMAIN rules
    THEN "NotApplicable"
    ELSE IF rules[key].allow
         THEN IF rules[key].services = {} \/ service \in rules[key].services
              THEN "Allow"
              ELSE "Block"
         ELSE IF rules[key].services = {} \/ service \in rules[key].services
              THEN "Block"
              ELSE "NotApplicable"

\* first verdict of the ladder subject override, role permission, default
\* restriction
Ladder(subject, role, default) ==
    IF subject # "NotApplicable" THEN subject
    ELSE IF role # "NotApplicable" THEN role
    ELSE default

Evaluated == result # NoResult

TargetIds == {request.service_data.ids[i] : i \in 1..Len(request.service_data.ids)}

\* the request names entity e and no other
OnlyTarget(e) == TargetIds = {e}

\* the record and the configured role of the requesting subject
Subject == access_config.users[request.user_id]
SubjectRole == access_config.roles[Subject.role]

SubjectEntity(e) == Match(Subject.restrictions.entities, e, request.service)
RoleEntity(e) == Match(SubjectRole.permissions.entities, e, request.service)
DefaultEntity(e) == Match(access_config.default_restrictions.entities, e, request.service)
SubjectDomain == Match(Subject.restrictions.domains, request.domain, request.service)
RoleDomain == Match(SubjectRole.permissions.domains, request.domain, request.service)
DefaultDomain == Match(access_config.default_restrictions.domains, request.domain, request.service)

EntityVerdict(e) == Ladder(SubjectEntity(e), RoleEntity(e), DefaultEntity(e))
DomainVerdict == Ladder(SubjectDomain, RoleDomain, DefaultDomain)

\* no rule of any level is stored for entity e
NoEntityRule(e) ==
    /\ e \notin DOMAIN Subject.restrictions.entities
    /\ e \notin DOMAIN SubjectRole.permissions.entities
    /\ e \notin DOMAIN access_config.default_restrictions.entities

\* an evaluated request of a configured subject whose role is stored, has no
\* template and is not admin
NonAdminCase ==
    /\ Evaluated
    /\ request.user_id \in DOMAIN access_config.users
    /\ Subject.role \in DOMAIN access_config.roles
    /\ SubjectRole.template = ""
    /\ ~SubjectRole.admin

-----------------------------------------------------------------------------
(* Claims on rule evaluation (specification SpecRules) *)

\* C1: for a non-admin configured subject whose role blocks the whole domain
\* (block rule, no services) and allows entity e for the requested service,
\* a request on e alone is allowed, and the same request on another entity
\* that has no entity rule is denied.
C1_EntityBeforeDomain ==
    (/\ NonAdminCase
     /\ request.domain \in DOMAIN SubjectRole.permissions.domains
     /\ SubjectRole.permissions.domains[request.domain] = Rule(FALSE, {})
     /\ SubjectDomain = "NotApplicable")
    => \A e \in {Kitchen, Bedroom} :
          (RoleEntity(e) = "Allow" /\ SubjectEntity(e) = "NotApplicable")
          => /\ OnlyTarget(e) => result.allowed
             /\ \A other \in {Kitchen, Bedroom} \ {e} :
                   (OnlyTarget(other) /\ NoEntityRule(other)) => ~result.allowed

\* C2: a per-subject entity rule decides before the role and default rules:
\* for a non-admin configured subject and a request on entity e alone, the
\* request is denied when the subject's rule for e blocks the service and
\* allowed when it allows it.
C2_SubjectOverrideFirst ==
    NonAdminCase
    => \A e \in {Kitchen, Bedroom} :
          OnlyTarget(e)
          => /\ SubjectEntity(e) = "Block" => ~result.allowed
             /\ SubjectEntity(e) = "Allow" => result.allowed

\* C3: with no subject override, the role rule is consulted before the
\* default rule in both scopes: role Block with default Allow on the target
\* entity (or, with no verdict in entity scope, on the domain) denies.
C3_RoleBeforeDefault ==
    NonAdminCase
    => /\ \A e \in {Kitchen, Bedroom} :
             (/\ OnlyTarget(e)
              /\ SubjectEntity(e) = "NotApplicable"
              /\ RoleEntity(e) = "Block"
              /\ DefaultEntity(e) = "Allow")
             => ~result.allowed
       /\ (/\ \A e \in TargetIds : EntityVerdict(e) = "NotApplicable"
           /\ SubjectDomain = "NotApplicable"
           /\ RoleDomain = "Block"
           /\ DefaultDomain = "Allow")
          => ~result.allowed

\* C4: a request naming several entities is denied whenever the entity rules
\* of one of them yield Block, wherever it stands in the list and whatever
\* allow rules the others have.  Stated for targets whose entity rules are
\* role rules only, so that the verdict of each entity is its role rule's.
C4_AnyBlockedEntityDenies ==
    (/\ NonAdminCase
     /\ request.service_data.kind = "list"
     /\ \A e \in TargetIds :
           /\ e \notin DOMAIN Subject.restrictions.entities
           /\ e \notin DOMAIN access_config.default_restrictions.entities
     /\ \E e \in TargetIds : RoleEntity(e) = "Block")
    => ~result.allowed

\* C5: an allow rule narrows to its service list: when the role's allow rule
\* is the first applicable rule of its scope (entity: no subject override on
\* e; domain: no verdict in entity scope and no subject override), a listed
\* service is allowed and an unlisted one denied, and with no list every
\* service is allowed.
C5_AllowListNarrows ==
    NonAdminCase
    => /\ \A e \in {Kitchen, Bedroom} :
             (/\ OnlyTarget(e)
              /\ SubjectEntity(e) = "NotApplicable"
              /\ e \in DOMAIN SubjectRole.permissions.entities
              /\ SubjectRole.permissions.entities[e].allow)
             => (result.allowed <=> RoleEntity(e) = "Allow")
       /\ (/\ \A e \in TargetIds : EntityVerdict(e) = "NotApplicable"
           /\ SubjectDomain = "NotApplicable"
           /\ request.domain \in DOMAIN SubjectRole.permissions.domains
           /\ SubjectRole.permissions.domains[request.domain].allow)
          => (result.allowed <=> RoleDomain = "Allow")

\* the entity ids the deny_all override looks at besides the targets
SyntheticIds ==
    IF request.domain \in {"script", "automation"}
    THEN {request.domain \o "." \o request.service}
    ELSE {}

\* no rule of any level gives a verdict for the request
NoVerdict ==
    /\ \A e \in TargetIds \cup SyntheticIds : EntityVerdict(e) = "NotApplicable"
    /\ DomainVerdict = "NotApplicable"

\* the role allows target e for the service and no other rule gives a verdict
OnlyRoleAllows(e) ==
    /\ RoleEntity(e) = "Allow"
    /\ SubjectEntity(e) = "NotApplicable"
    /\ DefaultEntity(e) = "NotApplicable"
    /\ \A o \in (TargetIds \cup SyntheticIds) \ {e} : EntityVerdict(o) = "NotApplicable"
    /\ DomainVerdict = "NotApplicable"

\* C6 as stated: under a non-admin deny_all role a request with no verdict
\* from any rule is denied, and is allowed once the role holds an entity
\* allow rule for a target of the request.
C6_DenyAllDenies ==
    (NonAdminCase /\ SubjectRole.deny_all)
    => /\ NoVerdict => ~result.allowed
       /\ (\E e \in TargetIds : OnlyRoleAllows(e)) => result.allowed

\* C6 amended: as C6, except that system_log.write and
\* browser_mod.notification are allowed whatever deny_all says.
C6_DenyAllDeniesButExceptions ==
    (NonAdminCase /\ SubjectRole.deny_all)
    => /\ NoVerdict
          => (result.allowed
                <=> <<request.domain, request.service>>
                       \in {<<"system_log", "write">>, <<"browser_mod", "notification">>})
       /\ (\E e \in TargetIds : OnlyRoleAllows(e)) => result.allowed

\* a light request on entities without any rule, denied by deny_all
C6_Witness ==
    /\ NonAdminCase
    /\ SubjectRole.deny_all
    /\ NoVerdict
    /\ request.domain = "light"
    /\ TargetIds # {}
    /\ ~result.allowed
    /\ result.reason = "access denied by deny_all setting for role family"

\* an evaluated request of a subject that has a user id and no record
NoRecordCase ==
    /\ Evaluated
    /\ request.user_id \notin {"", "null"}
    /\ request.user_id \notin DOMAIN access_config.users

\* C13: for a subject without record and a request on entity e alone, a
\* default entity rule that gives a verdict for e decides, also when the
\* default rule of the request's domain gives the opposite verdict.
C13_NoRecordEntityBeforeDomain ==
    NoRecordCase
    => \A e \in {Kitchen, Bedroom} :
          (/\ OnlyTarget(e)
           /\ DefaultEntity(e) # "NotApplicable"
           /\ DefaultDomain # "NotApplicable"
           /\ DefaultDomain # DefaultEntity(e))
          => (result.allowed <=> DefaultEntity(e) = "Allow")

\* C14: for a subject without record, a default rule with allow=true allows
\* when its services list is empty or holds the service and blocks otherwise:
\* the domain rule for a request without target, the entity rule for a
\* request on e alone whose domain has no default rule.
C14_NoRecordAllowRules ==
    NoRecordCase
    => /\ (/\ request.service_data.kind = "absent"
           /\ request.domain \in DOMAIN access_config.default_restrictions.domains
           /\ access_config.default_restrictions.domains[request.domain].allow)
          => (result.allowed <=> DefaultDomain = "Allow")
       /\ \A e \in {Kitchen, Bedroom} :
             (/\ OnlyTarget(e)
              /\ request.domain \notin DOMAIN access_config.default_restrictions.domains
              /\ e \in DOMAIN access_config.default_restrictions.entities
              /\ access_config.default_restrictions.entities[e].allow)
             => (result.allowed <=> DefaultEntity(e) = "Allow")

\* no rule gives a verdict for a target of the request or for its domain
NoEarlierVerdict ==
    /\ \A e \in TargetIds : EntityVerdict(e) = "NotApplicable"
    /\ DomainVerdict = "NotApplicable"

\* C15: under a non-admin deny_all role, a script or automation request that
\* no entity or domain rule decided is allowed exactly when the role holds an
\* entity allow rule under the id "<domain>.<service>" whose services list is
\* empty or holds the service.
C15_SyntheticIdOverride ==
    (/\ NonAdminCase
     /\ SubjectRole.deny_all
     /\ request.domain \in {"script", "automation"}
     /\ NoEarlierVerdict)
    => (result.allowed <=> RoleEntity(request.domain \o "." \o request.service) = "Allow")

\* script.turn_on on an entity without rules, let through by the role's
\* allow rule for "script.turn_on"
C15_Witness ==
    /\ NonAdminCase
    /\ SubjectRole.deny_all
    /\ request.domain = "script"
    /\ request.service_data = Single(Kitchen)
    /\ NoEarlierVerdict
    /\ result = Ret(TRUE, "entity script.turn_on service turn_on allowed by role entity permissions (overrides deny_all)")

\* C16: for a configured subject whose role is stored, not admin and without
\* deny_all, a request for which no role rule and no default rule of either
\* scope gives a verdict is allowed.
C16_AllowByDefault ==
    (/\ NonAdminCase
     /\ ~SubjectRole.deny_all
     /\ \A e \in TargetIds : RoleEntity(e) = "NotApplicable" /\ DefaultEntity(e) = "NotApplicable"
     /\ RoleDomain = "NotApplicable"
     /\ DefaultDomain = "NotApplicable")
    => result.allowed

\* the role and the defaults hold block rules for the target and the domain,
\* none of which names the requested service: access granted
C16_Witness ==
    /\ NonAdminCase
    /\ ~SubjectRole.deny_all
    /\ request.service_data = Single(Kitchen)
    /\ Kitchen \in DOMAIN SubjectRole.permissions.entities
    /\ RoleEntity(Kitchen) = "NotApplicable"
    /\ request.domain \in DOMAIN access_config.default_restrictions.domains
    /\ DefaultDomain = "NotApplicable"
    /\ result = Ret(TRUE, "access granted")

\* C17: a second evaluation of the same call against the same policy
\* returns the (allowed, reason) pair the first one returned.
C17_Deterministic == again # NoResult => again = result

\* C18: on entity e alone, when the default rule for e blocks the service and
\* the role's rule for e is a block rule with a services list that does not
\* hold the service, the request is denied.
C18_BlockRuleFallsThrough ==
    NonAdminCase
    => \A e \in {Kitchen, Bedroom} :
          (/\ OnlyTarget(e)
           /\ SubjectEntity(e) = "NotApplicable"
           /\ DefaultEntity(e) = "Block"
           /\ e \in DOMAIN SubjectRole.permissions.entities
           /\ ~SubjectRole.permissions.entities[e].allow
           /\ RoleEntity(e) = "NotApplicable")
          => ~result.allowed

-----------------------------------------------------------------------------
(* Claims on role resolution (specification SpecRoles) *)

\* the rendering outcomes the claim calls falsy, and a rendering error
FalsyOrError == {"<None>", "", "False", "false", "0", "<raise>"}

\* the configured role has both template and fallbackRole
Templated == SubjectRole.template # "" /\ SubjectRole.fallbackRole # ""

\* the decision of the request for a subject that holds role name directly,
\* role name carrying no template
Direct(name) ==
    LET plain == [access_config.roles[name] EXCEPT !.template = "", !.fallbackRole = ""]
        doc == [access_config EXCEPT !.users[request.user_id].role = name,
                                     !.roles[name] = plain]
    IN  CheckServiceAccessWithReason(request.domain, request.service, request.service_data,
                                     request.user_id, doc, request.rendered)

\* C7: when the configured role has template and fallbackRole and the
\* template renders falsy (None, "", "False", "false", "0") or raises, the
\* decision is the one the stored fallback role gives; when it renders
\* truthy, the decision is the one the configured role gives.
C7_TemplateFallback ==
    (/\ Evaluated
     /\ request.user_id \in DOMAIN access_config.users
     /\ Subject.role \in DOMAIN access_config.roles
     /\ Templated)
    => /\ (request.rendered \in FalsyOrError
             /\ SubjectRole.fallbackRole \in DOMAIN access_config.roles)
          => result = Direct(SubjectRole.fallbackRole)
       /\ request.rendered \notin FalsyOrError
          => result = Direct(Subject.role)

\* the template rendered "0" and the fallback role's decision, which differs
\* from the configured role's, was returned
C7_Witness ==
    /\ Evaluated
    /\ request.user_id = "alice"
    /\ Templated
    /\ request.rendered = "0"
    /\ SubjectRole.fallbackRole = "guest"
    /\ result = Direct("guest")
    /\ result.allowed # Direct("family").allowed

\* the role the specification resolves the subject to
ResolvedRole ==
    IF Templated /\ request.rendered \in FalsyOrError
    THEN SubjectRole.fallbackRole
    ELSE Subject.role

\* C10: if the effective role (after template/fallback resolution) has admin
\* set, the request is allowed whatever rules and deny_all say.
C10_AdminAllowsAll ==
    (/\ Evaluated
     /\ request.user_id \in DOMAIN access_config.users
     /\ Subject.role \in DOMAIN access_config.roles
     /\ ResolvedRole \in DOMAIN access_config.roles
     /\ access_config.roles[ResolvedRole].admin)
    => result.allowed

\* an admin fallback role with deny_all and a rule blocking the request: the
\* request is allowed as admin
C10_Witness ==
    /\ Evaluated
    /\ request.user_id = "alice"
    /\ Templated
    /\ ResolvedRole = "guest"
    /\ access_config.roles["guest"].admin
    /\ access_config.roles["guest"].deny_all
    /\ ~access_config.roles["family"].admin
    /\ Match(access_config.roles["guest"].permissions.domains, request.domain, request.service) = "Block"
    /\ result = Ret(TRUE, "admin role guest has full access")

\* the decision of the request for a subject without record, all else equal
WithoutRecord ==
    LET others == DOMAIN access_config.users \ {request.user_id}
        doc == [access_config EXCEPT !.users = [u \in others |-> access_config.users[u]]]
    IN  CheckServiceAccessWithReason(request.domain, request.service, request.service_data,
                                     request.user_id, doc, request.rendered)

\* the role of the subject cannot be resolved: the configured role is not
\* stored, or its template is falsy or failing and the fallbackRole is not
\* stored
Unresolvable ==
    \/ Subject.role \notin DOMAIN access_config.roles
    \/ /\ Subject.role \in DOMAIN access_config.roles
       /\ Templated
       /\ request.rendered \in FalsyOrError
       /\ SubjectRole.fallbackRole \notin DOMAIN access_config.roles

\* C12: a configured subject whose role cannot be resolved gets the decision
\* the same request gets for a subject without record.
C12_UnresolvableRoleAsNoRecord ==
    (/\ Evaluated
     /\ request.user_id \in DOMAIN access_config.users
     /\ Unresolvable)
    => result.allowed = WithoutRecord.allowed

\* C28: an entity_id given as the string e and as the one-element list [e]
\* get the same allowed flag, for every policy, subject, domain and service,
\* for subjects with and without record.
C28_StringAsSingleton ==
    (Evaluated /\ request.service_data.kind = "str")
    => result.allowed =
          CheckServiceAccessWithReason(request.domain, request.service,
                                       Listed(request.service_data.ids), request.user_id,
                                       access_config, request.rendered).allowed

\* light.turn_on on the kitchen light, given as a string, by alice, whose
\* role blocks the kitchen light: the request is refused
C28_Witness ==
    /\ Evaluated
    /\ request.user_id = "alice"
    /\ request.domain = "light"
    /\ request.service_data = Single(Kitchen)
    /\ ~SubjectRole.admin
    /\ Kitchen \in DOMAIN SubjectRole.permissions.entities
    /\ ~SubjectRole.permissions.entities[Kitchen].allow
    /\ ~result.allowed

-----------------------------------------------------------------------------
(* Claims about the interceptor, checked under Spec *)

ContextIds == {"c1", "c2"}

\* call k was allowed by the policy, registered context id c and its
\* downstream execution has not finished
Executing(k, c) ==
    /\ calls[k].pc = "running"
    /\ calls[k].path = "allowed"
    /\ calls[k].domain \in {"script", "automation"}
    /\ calls[k].context_id_added = c

\* call j is intercepted in this step
Intercepted(j) == calls[j].pc = "new" /\ calls'[j].pc # "new"

\* call j was passed downstream by the chain check, without policy evaluation
ChainExempt(call) == call.pc = "running" /\ call.path = "chained"

\* C8: with allow_chained_actions enabled, a call intercepted while an
\* allowed script or automation call with context id c is still executing,
\* and whose context id or parent context id is c, is passed downstream
\* without policy evaluation.
C8_ChainExemption ==
    [][\A j \in CallIds, c \in ContextIds :
          ( /\ Intercepted(j)
            /\ Setting(access_config, "allow_chained_actions", FALSE)
            /\ c \in ContextChain(calls'[j].context)
            /\ \E k \in CallIds \ {j} : Executing(k, c) )
          => ChainExempt(calls'[j])]_vars

\* the policy decides against call j, which is resuming from the user lookup
PolicyDenies(j) ==
    /\ ~IsBuiltinHaUser(calls[j].context.user_id)
    /\ Setting(access_config, "enabled", TRUE)
    /\ ~CheckServiceAccessWithReason(calls[j].domain, calls[j].service, calls[j].service_data,
                                     calls[j].context.user_id, access_config, "True").allowed

\* C9: the step in which the downstream execution of an allowed script or
\* automation call that registered context id c returns or raises leaves c
\* out of the allowed-context set; a call intercepted while no such call is
\* executing for an id of its chain is not exempted, and it is refused,
\* without being dispatched, when the policy decides against it.
C9_RegistrationReverted ==
    [][/\ \A i \in CallIds, c \in ContextIds :
              (Executing(i, c) /\ calls'[i].pc # "running") => c \notin allowed_contexts'
       /\ \A j \in CallIds :
              ( /\ Intercepted(j)
                /\ \A c \in ContextChain(calls'[j].context), k \in CallIds : ~Executing(k, c) )
              => ~ChainExempt(calls'[j])
       /\ \A j \in CallIds :
              ( /\ calls[j].pc = "lookup"
                /\ calls'[j].pc # "lookup"
                /\ calls'[j].path # "error"
                /\ PolicyDenies(j) )
              => (calls'[j].pc \in {"notify", "denied"} /\ dispatched'[j] = 0)]_vars

\* a script call registered c1 and raised; the light call that came after it
\* under the child context of c1 was evaluated and refused
C9_Witness ==
    \E i, j \in CallIds :
        /\ calls[i].pc = "raised"
        /\ calls[i].context_id_added = "c1"
        /\ "c1" \notin allowed_contexts
        /\ calls[j].after_release
        /\ calls[j].domain = "light"
        /\ calls[j].context.parent_id = "c1"
        /\ calls[j].pc = "denied"
        /\ dispatched[j] = 0

\* C20: the allow_chained_actions value a call took from the document at its
\* interception is the value held by the document it takes the enabled switch
\* and the decision from when it resumes from the user lookup.
C20_OneSnapshot ==
    [][\A j \in CallIds :
          ( /\ calls[j].pc = "lookup"
            /\ calls'[j].pc # "lookup"
            /\ calls'[j].path # "error"
            /\ ~IsBuiltinHaUser(calls[j].context.user_id) )
          => calls[j].allow_chained_actions
                = Setting(access_config, "allow_chained_actions", FALSE)]_vars

\* call k registers its context id in this step
RegistersNow(k) == calls[k].context_id_added = "" /\ calls'[k].context_id_added # ""

\* the paths that leave async_call before the chain registration
EarlyExits == {"chained", "excluded", "builtin", "no_user", "disabled", "error"}

\* every registered id belongs to an executing call that registered it, and
\* the calls that left early or were refused registered nothing
RegisteredByExecuting ==
    /\ \A c \in allowed_contexts : \E k \in CallIds : Executing(k, c)
    /\ \A k \in CallIds :
          (calls[k].path \in EarlyExits \/ calls[k].pc \in {"notify", "denied"})
          => calls[k].context_id_added = ""

\* C21: before and after every step, every id in the allowed-context set was
\* registered by a script or automation call that the policy allowed and
\* whose downstream execution has not finished; a call registers only when
\* it took allow_chained_actions as true at its interception and, resuming from the user lookup of an
\* identified user under an enabled policy, the decision allows it; a call
\* that left by the chain exemption, an excluded domain, a built-in user, a
\* missing user, a disabled policy or an internal error, and a refused call,
\* registered nothing.
C21_RegisteredContexts ==
    [][/\ RegisteredByExecuting
       /\ RegisteredByExecuting'
       /\ \A k \in CallIds :
              RegistersNow(k)
              => /\ calls[k].pc = "lookup"
                 /\ calls[k].allow_chained_actions
                 /\ calls[k].domain \in {"script", "automation"}
                 /\ calls[k].context.user_id \notin {"", "null"}
                 /\ ~IsBuiltinHaUser(calls[k].context.user_id)
                 /\ Setting(access_config, "enabled", TRUE)
                 /\ CheckServiceAccessWithReason(calls[k].domain, calls[k].service,
                                                 calls[k].service_data,
                                                 calls[k].context.user_id,
                                                 access_config, "True").allowed
                 /\ calls'[k].pc = "running"
                 /\ calls'[k].path = "allowed"
                 /\ allowed_contexts' = allowed_contexts \cup {calls'[k].context_id_added}]_vars

\* the script call of alice is executing under its registered context c1
\* while a call of the built-in user and a call that met an internal error
\* were passed downstream without registering
C21_Witness ==
    \E i, j, k \in CallIds :
        /\ Executing(i, "c1")
        /\ allowed_contexts = {"c1"}
        /\ calls[j].path = "builtin"
        /\ calls[j].pc = "running"
        /\ calls[k].path = "error"
        /\ calls[j].context_id_added = ""
        /\ calls[k].context_id_added = ""

\* a call that registered a context id is still executing downstream
InFlight(k) == calls[k].pc = "running" /\ calls[k].context_id_added # ""

\* C22: whenever no allowed script or automation call is executing
\* downstream, the allowed-context set is empty.
C22_NoStaleContexts ==
    (\A k \in CallIds : ~InFlight(k)) => allowed_contexts = {}

\* two script calls registered c1; one returned, the other raised an error
\* that is not a HomeAssistantError and was passed downstream again: no call
\* is executing under a registration and the set is empty
C22_Witness ==
    \E i, j \in CallIds :
        /\ i # j
        /\ calls[i].context_id_added = "c1"
        /\ calls[i].pc = "returned"
        /\ calls[j].context_id_added = "c1"
        /\ calls[j].pc = "recover"
        /\ \A k \in CallIds : ~InFlight(k)
        /\ allowed_contexts = {}

-----------------------------------------------------------------------------
(* Claims checked under SpecSubjects *)

\* the entry of user_id in the policy is a scalar
ScalarEntry(user_id) ==
    /\ user_id \in DOMAIN access_config.users
    /\ "scalar" \in DOMAIN access_config.users[user_id]

\* call j, resuming from the user lookup, reaches the decision: its user has
\* a person state and is not "null", and the policy is enabled
Checked(j) ==
    /\ calls[j].context.user_id \in PersonUsers
    /\ "enabled" \in DOMAIN access_config => access_config.enabled

\* the call carries no subject: no context, no user id, or the user id "null"
NoSubject(call) == ~call.context.present \/ call.context.user_id \in {"", "null"}

\* C11: a call without subject is never refused: it is passed downstream
\* without policy evaluation, and the decision function allows its
\* arguments under the current policy whatever the policy holds.
C11_NoSubjectAllowed ==
    \A j \in CallIds :
        (calls[j].pc # "new" /\ NoSubject(calls[j]))
        => /\ calls[j].pc \in {"lookup", "running", "recover", "returned", "raised"}
           /\ calls[j].pc # "lookup"
                 => /\ calls[j].path \in {"chained", "excluded", "no_user", "builtin", "error"}
                    /\ dispatched[j] >= 1
           /\ \A rendered \in RenderOutcomes :
                 CheckServiceAccessWithReason(calls[j].domain, calls[j].service,
                                              calls[j].service_data, calls[j].context.user_id,
                                              access_config, rendered).allowed

\* light.turn_on on the kitchen light for the user id "null" was passed
\* downstream under a policy whose default rules refuse it to a subject
\* without record
C11_Witness ==
    /\ calls[1].context.user_id = "null"
    /\ calls[1].domain = "light"
    /\ calls[1].pc = "returned"
    /\ dispatched[1] = 1
    /\ Setting(access_config, "enabled", TRUE)
    /\ ~DefaultOnlyDecision("light", "turn_on", Single(Kitchen),
                            access_config.default_restrictions).allowed

\* call j comes back from the user lookup in this step (the lookup did not
\* raise)
Resumes(j) ==
    /\ calls[j].pc = "lookup"
    /\ calls'[j].pc # "lookup"
    /\ calls'[j].pc = "recover" => (Checked(j) /\ ScalarEntry(calls[j].context.user_id))

Refuses(j) ==
    /\ Checked(j)
    /\ ~ScalarEntry(calls[j].context.user_id)
    /\ ~CheckServiceAccessWithReason(calls[j].domain, calls[j].service, calls[j].service_data,
                                     calls[j].context.user_id, access_config, "True").allowed

\* C24: a call the policy refuses is never passed downstream: from the
\* refusal on it is not dispatched, whether the notification call returns or
\* raises, and it ends with the access-denied error.
C24_DeniedNeverDispatched ==
    [][\A j \in CallIds :
          /\ (Resumes(j) /\ Refuses(j))
                => (calls'[j].pc \in {"notify", "denied"} /\ dispatched'[j] = 0)
          /\ (calls[j].pc = "notify" /\ calls'[j] # calls[j])
                => (calls'[j].pc = "denied" /\ dispatched'[j] = 0)
          /\ calls[j].pc = "denied"
                => (calls'[j] = calls[j] /\ dispatched'[j] = 0)]_vars

\* light.turn_on on the kitchen light by alice was refused with
\* notifications shown: the call ended denied and was never dispatched
C24_Witness ==
    /\ calls[1].pc = "denied"
    /\ calls[1].context.user_id = "alice"
    /\ calls[1].service_data = Single(Kitchen)
    /\ access_config.enabled
    /\ "show_notifications" \in DOMAIN access_config
    /\ access_config.show_notifications
    /\ dispatched[1] = 0

\* C25: the downstream dispatcher is invoked at most once for a call, also
\* when the downstream call raises.
C25_DispatchedAtMostOnce ==
    \A j \in CallIds : dispatched[j] <= 1

\* C26: a call of a user id without person state that comes back from the
\* user lookup is passed downstream without evaluation, also when the policy
\* lists the user under a role that refuses the call.
C26_BuiltinUserSkipped ==
    [][\A j \in CallIds :
          (Resumes(j) /\ calls[j].context.user_id \notin PersonUsers)
          => /\ calls'[j].pc = "running"
             /\ calls'[j].path = "builtin"
             /\ dispatched'[j] = 1
             /\ allowed_contexts' = allowed_contexts]_vars

\* supervisor is listed under the role family, which blocks the domain
\* light; its light.turn_on call was passed downstream as built-in
C26_Witness ==
    /\ calls[1].context.user_id = "supervisor"
    /\ calls[1].path = "builtin"
    /\ calls[1].pc = "returned"
    /\ dispatched[1] = 1
    /\ access_config.enabled
    /\ "supervisor" \in DOMAIN access_config.users
    /\ ~CheckServiceAccessWithReason("light", "turn_on", Single(Kitchen), "supervisor",
                                     access_config, "True").allowed

\* C27: under a policy whose enabled switch is false, the call of an
\* identified user that comes back from the user lookup is passed
\* downstream: it is not refused, nothing is notified and no context is
\* registered.
C27_DisabledAllowsAll ==
    [][\A j \in CallIds :
          (Resumes(j) /\ calls[j].context.user_id \notin {"", "null"}
             /\ ~access_config.enabled)
          => /\ calls'[j].pc = "running"
             /\ calls'[j].path \in {"disabled", "builtin"}
             /\ dispatched'[j] = 1
             /\ calls'[j].context_id_added = ""
             /\ allowed_contexts' = allowed_contexts]_vars

\* the policy is disabled and would refuse light.turn_on on the kitchen
\* light to alice; the call was passed downstream and returned
C27_Witness ==
    /\ calls[1].context.user_id = "alice"
    /\ calls[1].path = "disabled"
    /\ calls[1].pc = "returned"
    /\ dispatched[1] = 1
    /\ ~access_config.enabled
    /\ ~ScalarEntry("alice")
    /\ ~CheckServiceAccessWithReason("light", "turn_on", Single(Kitchen), "alice",
                                     [access_config EXCEPT !.enabled = TRUE], "True").allowed

-----------------------------------------------------------------------------
(* Claims about the administrative operations, checked under SpecAdmin *)

\* C19: as long as access_config refers to the same object, the document is
\* the same: no step changes a field of the document in place.
C19_NeverMutatedInPlace ==
    [][config_ref' = config_ref => access_config' = access_config]_vars


\* the save of operation op comes back in this step
SaveComesBack(op) ==
    /\ saving.pc = "saving"
    /\ saving.op = op
    /\ saving'.pc = "done"

\* C29: when delete_role for role r has been saved, every user that had
\* role r in the document the operation loaded has, in memory and in the
\* file, a role that the document holds.
C29_DeletedRoleReassigned ==
    [][(SaveComesBack("delete_role") /\ saving'.result
          /\ saving.arg \in DOMAIN saving.before.roles)
        => \A u \in DOMAIN saving.before.users :
              saving.before.users[u].role = saving.arg
              => /\ u \in DOMAIN access_config'.users
                 /\ access_config'.users[u].role \in DOMAIN access_config'.roles
                 /\ u \in DOMAIN config_file'.users
                 /\ config_file'.users[u].role \in DOMAIN config_file'.roles]_vars

\* C30: when the save of add_user_access fails, the document in memory is
\* the one from before the operation (the live document was not replaced in
\* between) and the file is as it was.
C30_AddUserAllOrNothing ==
    [][(SaveComesBack("add_user_access") /\ ~saving'.result /\ saving.live)
        => /\ access_config' = saving.before
           /\ config_file' = config_file]_vars

====
